---- MODULE Spec2Model ----
(***************************************************************************)
(* A model of minbeam (src/minbeam/minbeam.py): the smallest-area ellipse  *)
(* centred on the origin that encloses a set of ellipses ("beams").        *)
(*                                                                         *)
(* Numbers.  The program computes in IEEE doubles; the model computes in   *)
(* fixed point: a length, an angle (radians) or an area is the integer     *)
(* nearest to Scale times its value, and every product, quotient, square   *)
(* root, cosine and sine rounds to the nearest such integer.  NaN (the     *)
(* square root of a negative number) is a value of its own; comparisons    *)
(* with it are false, as in the program.                                   *)
(*                                                                         *)
(* The optimiser.  scipy.optimize.basinhopping and its L-BFGS-B local      *)
(* minimiser are called by best_params with the arguments of lines         *)
(* 125-131.  The model follows the loop that call runs: a first local      *)
(* minimisation from the guess, then niter cycles of random displacement,  *)
(* local minimisation within the bounds, the accept tests (the caller's    *)
(* bounds test and the Metropolis criterion) and the record of the lowest  *)
(* accepted minimum.  The search domain is sampled on a grid; the local    *)
(* minimiser is a descent over the grid, started from the displaced point  *)
(* projected onto the bounds.  The random generator is the process-wide    *)
(* one (no seed is passed): every draw is a nondeterministic choice.       *)
(*                                                                         *)
(* The objective.  area is a closure over X and is fixed for a whole call  *)
(* of best_params; its values over the grid, and what the local minimiser  *)
(* does from each point of it, are computed once per input (MemoSeq), and  *)
(* the state of a call names its entry.                                    *)
(***************************************************************************)
EXTENDS Integers, Sequences, FiniteSets

(***************************************************************************)
(* Bounds of the model                                                     *)
(***************************************************************************)
\* fixed-point resolution: a value v is held as the integer nearest v*Scale
Scale == 1000
\* boundary samples per beam (the program samples 1000, line 156)
NSamples == 5
\* the orientation axis [0, pi] is sampled at the multiples of pi/GridPa
GridPa == 4
\* a random displacement moves a point by at most MaxDisp grid cells per axis
MaxDisp == 2
\* calls of minbeam made one after the other in one process
MaxCalls == 2

\* niter of the basinhopping call
NIter == 100

(***************************************************************************)
(* Fixed-point arithmetic                                                  *)
(***************************************************************************)
\* an assignment to a local name: v is computed once and F applied to it
Bind(v, F(_)) == CHOOSE r \in {F(w) : w \in {v}} : TRUE

\* the value np.sqrt gives below zero; every number of the model that can be
\* compared with it is >= 0
NaN == -1

Abs(a) == IF a < 0 THEN -a ELSE a

Sgn(a) == IF a < 0 THEN -1 ELSE 1

\* a / b rounded to the nearest integer, halves away from zero (b > 0)
DivR(a, b) == Bind(a, LAMBDA v : Sgn(v) * ((2 * Abs(v) + b) \div (2 * b)))

\* the product of two fixed-point values
Mul(a, b) == DivR(a * b, Scale)

RECURSIVE Newton(_, _)
\* Newton's iteration for the square root of m, from r above it
Newton(m, r) ==
  Bind((r + m \div r) \div 2, LAMBDA y : IF y >= r THEN r ELSE Newton(m, y))

\* floor of the square root of m >= 0
ISqrt(m) == IF m < 2 THEN m ELSE Newton(m, IF m < 46340 THEN m ELSE 46340)

\* np.sqrt of an integer that is Scale^2 times the operand: the nearest
\* fixed-point value of the root, NaN below zero
Sqrt2(a) ==
  Bind(a, LAMBDA m :
    IF m < 0 THEN NaN
    ELSE Bind(ISqrt(m), LAMBDA r : IF m - r * r > r THEN r + 1 ELSE r))

Pi == DivR(355 * Scale, 113)

TwoPi == 2 * Pi

HalfPi == DivR(Pi, 2)

\* 1 - y2 / d * h, one step of a Taylor series in Horner form, at ten times
\* the resolution
Horner(y2, d, h) == 10 * Scale - DivR(DivR(y2 * h, 10 * Scale), d)

\* cos on [0, pi/2] by its Taylor series
CosQ(a) ==
  Bind(DivR(100 * a * a, 10 * Scale), LAMBDA y2 :
    DivR(Horner(y2, 2, Horner(y2, 12, Horner(y2, 30, Horner(y2, 56,
         Horner(y2, 90, 10 * Scale))))), 10))

\* np.cos of a fixed-point angle: the angle is reduced to [0, 2 pi), folded
\* onto [0, pi] and then onto [0, pi/2]
Cos(a) ==
  Bind(a % TwoPi, LAMBDA r :
    Bind(IF r <= Pi THEN r ELSE TwoPi - r, LAMBDA h :
      (IF h <= HalfPi THEN 1 ELSE -1) * CosQ(IF h <= HalfPi THEN h ELSE Pi - h)))

\* np.sin of a fixed-point angle: sin a = cos (a - pi/2)
Sin(a) == Cos(a - HalfPi)

(***************************************************************************)
(* Arrays                                                                  *)
(***************************************************************************)
\* np.array(beams): its shape and, for a two-dimensional array, its rows
Arr(shape, rows) == [shape |-> shape, rows |-> rows]

Ndim(a) == Len(a.shape)

\* a beam (major, minor, pa) with axes in whole units and pa in fixed point
Beam(major, minor, pa) == <<major * Scale, minor * Scale, pa>>

\* the position angle j * pi / GridPa
PaAt(j) == DivR(j * Pi, GridPa)

\* N x 3 arrays with N >= 1, major >= minor > 0
ValidSeq ==
  << Arr(<<1, 3>>, <<Beam(5, 3, 0)>>),
     Arr(<<1, 3>>, <<Beam(5, 3, PaAt(1))>>),
     Arr(<<1, 3>>, <<Beam(5, 4, PaAt(GridPa + 1))>>),
     Arr(<<1, 3>>, <<Beam(4, 4, 0)>>),
     Arr(<<1, 3>>, <<Beam(3, 2, Pi)>>),
     Arr(<<2, 3>>, <<Beam(5, 3, 0), Beam(4, 4, PaAt(1))>>),
     Arr(<<2, 3>>, <<Beam(5, 3, PaAt(1)), Beam(5, 4, PaAt(GridPa - 1))>>),
     Arr(<<3, 3>>, <<Beam(3, 2, 0), Beam(4, 3, PaAt(1)), Beam(5, 3, PaAt(2))>>),
     Arr(<<3, 3>>, <<Beam(5, 3, PaAt(1)), Beam(3, 2, 0), Beam(4, 4, 0)>>) >>

ValidInputs == {ValidSeq[k] : k \in 1..Len(ValidSeq)}

\* everything else a caller can pass: [], [[]], a flat triple, rows of two
\* or four components, a three-dimensional array, and the empty array of
\* shape (0, 3)
MalformedInputs ==
  { Arr(<<0>>, <<>>),
    Arr(<<1, 0>>, <<<<>>>>),
    Arr(<<3>>, <<>>),
    Arr(<<1, 2>>, <<<<5 * Scale, 3 * Scale>>>>),
    Arr(<<2, 4>>, <<<<5 * Scale, 3 * Scale, 0, 0>>, <<4 * Scale, 3 * Scale, 0, 0>>>>),
    Arr(<<1, 1, 3>>, <<>>),
    Arr(<<0, 3>>, <<>>) }

Inputs == ValidInputs \cup MalformedInputs

\* an N x 3 collection with N >= 1
IsNx3(a) == Ndim(a) = 2 /\ a.shape[2] = 3 /\ a.shape[1] >= 1

\* a sequence given as a function, with every element computed
Eager(s) == s \o <<>>

\* a variant of MaxOf: the first element instead of the largest
FirstOf(s) == s[1]

\* np.max of a non-empty sequence
MaxOf(s) ==
  Bind(s, LAMBDA q : CHOOSE m \in {q[i] : i \in 1..Len(q)} : \A i \in 1..Len(q) : q[i] <= m)

\* ndarray.flatten of a sequence of rows of one length
Flatten(a) ==
  Bind(a, LAMBDA rows :
    IF Len(rows) = 0 THEN <<>>
    ELSE Eager([i \in 1..(Len(rows) * Len(rows[1])) |->
                  rows[((i - 1) \div Len(rows[1])) + 1][((i - 1) % Len(rows[1])) + 1]]))

(***************************************************************************)
(* Boundary sampling (minbeam, lines 155-171)                              *)
(***************************************************************************)
\* a variant of Linspace: num values from start, stop itself left out
LinspaceOpen(start, stop, num) ==
  Eager([i \in 1..num |-> start + DivR((i - 1) * (stop - start), num)])

\* np.linspace(start, stop, num): num values, both ends included
Linspace(start, stop, num) ==
  Eager([i \in 1..num |-> start + DivR((i - 1) * (stop - start), num - 1)])

\* theta of line 156
Theta == Linspace(0, TwoPi, NSamples)

\* one row of beams_x
BeamX(beam) ==
  Eager([i \in 1..Len(Theta) |->
     Mul(Mul(DivR(beam[1], 2), Cos(Theta[i])), Cos(beam[3]))
     - Mul(Mul(DivR(beam[2], 2), Sin(Theta[i])), Sin(beam[3]))])

\* one row of beams_y
BeamY(beam) ==
  Eager([i \in 1..Len(Theta) |->
     Mul(Mul(DivR(beam[1], 2), Cos(Theta[i])), Sin(beam[3]))
     + Mul(Mul(DivR(beam[2], 2), Sin(Theta[i])), Cos(beam[3]))])

\* the transpose of the two-row array [bx, by]
Transpose(bx, by) == Eager([i \in 1..Len(bx) |-> <<bx[i], by[i]>>])

\* X of line 171: the points (beams_x[i], beams_y[i])
Cloud(a) ==
  Bind(a, LAMBDA rows :
    Bind(<<Flatten(Eager([k \in 1..Len(rows) |-> BeamX(rows[k])])),
           Flatten(Eager([k \in 1..Len(rows) |-> BeamY(rows[k])]))>>,
         LAMBDA b : Transpose(b[1], b[2])))

(***************************************************************************)
(* Focal geometry                                                          *)
(***************************************************************************)
\* the distance between two points
Dist(p, f) == Sqrt2((p[1] - f[1]) * (p[1] - f[1]) + (p[2] - f[2]) * (p[2] - f[2]))

\* a variant of string_length: the distance to f1 alone
string_length_f1(pts, f1, f2) ==
  Bind(<<pts, f1>>, LAMBDA t : Eager([i \in 1..Len(t[1]) |-> Dist(t[1][i], t[2])]))

\* for each point, its distance to f1 plus its distance to f2
string_length(pts, f1, f2) ==
  Bind(<<pts, f1, f2>>, LAMBDA t :
    Eager([i \in 1..Len(t[1]) |-> Dist(t[1][i], t[2]) + Dist(t[1][i], t[3])]))

\* the two foci, sep apart, on the line through the origin at angle pa
focii_positions(sep, pa) ==
  Bind(<<sep, Cos(pa), Sin(pa)>>, LAMBDA t :
    << <<Mul(DivR(t[1], 2), t[2]), Mul(DivR(t[1], 2), t[3])>>,
       <<Mul(DivR(-t[1], 2), t[2]), Mul(DivR(-t[1], 2), t[3])>> >>)

\* np.max(string_length(X, f1, f2)) for the foci of (sep, pa)
MaxString(pts, sep, pa) ==
  Bind(focii_positions(sep, pa), LAMBDA f : MaxOf(string_length(pts, f[1], f[2])))

\* a variant of area with the sign under the root flipped:
\* pi * s / 4 * sqrt(s^2 + sep^2)
area_plus(pts, sep, pa) ==
  Bind(<<MaxString(pts, sep, pa), sep>>, LAMBDA t :
    Mul(DivR(Mul(Pi, t[1]), 4), Sqrt2(t[1] * t[1] + t[2] * t[2])))

\* the objective: pi * s / 4 * sqrt(s^2 - sep^2), NaN when s < |sep|
area(pts, sep, pa) ==
  Bind(<<MaxString(pts, sep, pa), sep>>, LAMBDA t :
    Bind(Sqrt2(t[1] * t[1] - t[2] * t[2]), LAMBDA r :
      IF r = NaN THEN NaN ELSE Mul(DivR(Mul(Pi, t[1]), 4), r)))

\* a < b on numbers; false when either is NaN
Less(a, b) == a # NaN /\ b # NaN /\ a < b

(***************************************************************************)
(* The search domain (best_params, lines 120-124)                          *)
(***************************************************************************)
\* max_sep of line 174: twice np.max of the first two rows of beams
MaxSepOf(rows) == 2 * MaxOf(Flatten(SubSeq(rows, 1, IF Len(rows) < 2 THEN Len(rows) ELSE 2)))

\* guess of line 120
Guess(ms) == <<DivR(ms, 2), HalfPi>>

\* a variant of Bounds: the orientation bounded by 2 pi instead of pi
WideBounds(ms) == << <<0, ms>>, <<0, TwoPi>> >>

\* bounds of line 121: (low, high) of the separation and of the orientation
Bounds(ms) == << <<0, ms>>, <<0, Pi>> >>

\* xmin of line 122
XMin(ms) == <<Bounds(ms)[1][1], Bounds(ms)[2][1]>>

\* xmax of line 123
XMax(ms) == <<Bounds(ms)[1][2], Bounds(ms)[2][2]>>

\* BasinhoppingBounds.__call__: every component of x_new within the bounds
BoundsTest(ms, v) ==
  Bind(<<XMin(ms), XMax(ms), v>>, LAMBDA t :
    /\ t[3][1] >= t[1][1] /\ t[3][2] >= t[1][2]
    /\ t[3][1] <= t[2][1] /\ t[3][2] <= t[2][2])

\* the elements of a finite set of integers in increasing order
SortSet(S) ==
  Bind(S, LAMBDA T :
    Eager([i \in 1..Cardinality(T) |->
             CHOOSE v \in T : Cardinality({w \in T : w < v}) = i - 1]))

\* the grid cell of the separation axis, and of the orientation axis
SepStep == Scale

OriStep == PaAt(1)

\* the sampled separations: the multiples of SepStep within the bounds, the
\* bounds themselves and the guess
SepAxis(ms) ==
  Bind(<<XMin(ms)[1], XMax(ms)[1]>>, LAMBDA b :
    SortSet((({k * SepStep : k \in 0..(b[2] \div SepStep)} \cup {Guess(ms)[1]})
             \cap (b[1]..b[2])) \cup {b[1], b[2]}))

\* the sampled orientations: the multiples of OriStep within the bounds, the
\* bounds themselves and the guess
OriAxis(ms) ==
  Bind(<<XMin(ms)[2], XMax(ms)[2]>>, LAMBDA b :
    SortSet((({PaAt(j) : j \in 0..(2 * GridPa)} \cup {Guess(ms)[2]})
             \cap (b[1]..b[2])) \cup {b[1], b[2]}))

\* the value at index i of an axis; an index off the axis is as many cells
\* beyond its end
AxisVal(axis, i, step) ==
  IF i < 1 THEN axis[1] + (i - 1) * step
  ELSE IF i > Len(axis) THEN axis[Len(axis)] + (i - Len(axis)) * step
  ELSE axis[i]

\* the objective at every point of the grid of two axes and of its margin;
\* the entry of the point <<i, j>> is at <<i + MaxDisp, j + MaxDisp>>
AreaTable(pts, sa, oa) ==
  Eager([i \in 1..(Len(sa) + 2 * MaxDisp) |->
     Eager([j \in 1..(Len(oa) + 2 * MaxDisp) |->
        area(pts, AxisVal(sa, i - MaxDisp, SepStep), AxisVal(oa, j - MaxDisp, OriStep))])])

\* the grid points of the domain of a grid g
Domain(g) == (1..Len(g.sep)) \X (1..Len(g.ori))

\* the (separation, orientation) a pair of axis indices stands for
PointVal(g, p) == <<AxisVal(g.sep, p[1], SepStep), AxisVal(g.ori, p[2], OriStep)>>

\* the index pair of a value pair of the grid
PointAt(g, v) == CHOOSE p \in Domain(g) : PointVal(g, p) = v

\* area(params) at the point p
Objective(g, p) == g.tab[p[1] + MaxDisp][p[2] + MaxDisp]

(***************************************************************************)
(* The local minimiser (L-BFGS-B with bounds, line 128)                    *)
(***************************************************************************)
Clip(i, lo, hi) == IF i < lo THEN lo ELSE IF i > hi THEN hi ELSE i

\* a variant of Project: the start left where it is
NoProject(g, p) == p

\* the start projected onto the bounds
Project(g, p) == <<Clip(p[1], 1, Len(g.sep)), Clip(p[2], 1, Len(g.ori))>>

\* the points next to p that the bounded minimiser may probe
Neighbours(g, p) ==
  {q \in ((p[1] - 1)..(p[1] + 1)) \X ((p[2] - 1)..(p[2] + 1)) : q # p /\ q \in Domain(g)}

\* a lowest point of a non-empty set of points
Lowest(g, S) == CHOOSE q \in S : \A r \in S : ~Less(Objective(g, r), Objective(g, q))

RECURSIVE Descend(_, _, _)
\* descent from p to a point none of whose neighbours is lower; evals
\* collects the points at which the objective was evaluated
Descend(g, p, evals) ==
  Bind(<<Neighbours(g, p), Objective(g, p)>>, LAMBDA t :
    Bind(<<{q \in t[1] : Less(Objective(g, q), t[2])}, evals \cup {p} \cup t[1]>>, LAMBDA u :
      IF u[1] = {} THEN [x |-> p, evals |-> u[2]]
      ELSE Bind(Lowest(g, u[1]), LAMBDA q : Descend(g, q, u[2]))))

\* minimize(area, start, method="L-BFGS-B", bounds=bounds)
Minimise(g, start) == Bind(Project(g, start), LAMBDA p : Descend(g, p, {}))

\* what a local minimisation from start did: the minimum found, whether
\* start was out of bounds, whether the objective was evaluated, whether it
\* was evaluated out of bounds, and whether it was NaN anywhere
CycleFrom(g, start) ==
  Bind(Minimise(g, start), LAMBDA m :
    [x |-> m.x,
     out |-> ~BoundsTest(g.ms, PointVal(g, start)),
     ran |-> m.evals # {},
     evalOut |-> \E q \in m.evals : ~BoundsTest(g.ms, PointVal(g, q)),
     nan |-> \E q \in m.evals : Objective(g, q) = NaN])

\* CycleFrom at every point a displacement can reach; the entry of the
\* point <<i, j>> is at <<i + MaxDisp, j + MaxDisp>>
CycleTable(g) ==
  Eager([i \in 1..(Len(g.sep) + 2 * MaxDisp) |->
     Eager([j \in 1..(Len(g.ori) + 2 * MaxDisp) |->
        CycleFrom(g, <<i - MaxDisp, j - MaxDisp>>)])])

\* what best_params(X, max_sep) searches: the bounds, the grid of the
\* domain, the objective on it (area is a closure over X, which is fixed
\* for the whole call) and what the local minimiser does from each point
GridOf(pts, ms) ==
  Bind(<<pts, ms, SepAxis(ms), OriAxis(ms)>>, LAMBDA t :
    Bind([ms |-> t[2], sep |-> t[3], ori |-> t[4], tab |-> AreaTable(t[1], t[3], t[4])],
         LAMBDA g : [ms |-> g.ms, sep |-> g.sep, ori |-> g.ori, tab |-> g.tab,
                     cyc |-> CycleTable(g)]))

\* GridOf for every valid input
MemoSeq ==
  Eager([k \in 1..Len(ValidSeq) |-> GridOf(Cloud(ValidSeq[k].rows), MaxSepOf(ValidSeq[k].rows))])

\* the entry of MemoSeq that is GridOf(X, max_sep) in a call on the valid
\* input a
Memo(a) == CHOOSE k \in 1..Len(ValidSeq) : ValidSeq[k] = a

\* the local minimisation from start, looked up
Cycle(g, start) == g.cyc[start[1] + MaxDisp][start[2] + MaxDisp]

\* a variant of Improves: every accepted minimum replaces the stored one
Replaces(fnew, fbest) == {TRUE}

\* Storage.update of basinhopping: a minimum replaces the stored one when
\* its value is lower.  The outcomes of that comparison: two values that
\* differ are compared as they are; two values equal at the resolution of
\* the model may compare either way in the program
Improves(fnew, fbest) ==
  IF Less(fnew, fbest) THEN {TRUE} ELSE IF fnew = fbest THEN {TRUE, FALSE} ELSE {FALSE}

\* the random displacements of take_step, in grid cells
Displacements == (-MaxDisp..MaxDisp) \X (-MaxDisp..MaxDisp)

\* the Metropolis criterion at T = 1: a minimum not above the current one
\* is accepted, a higher one with probability exp(-(f_new - f_old))
Metropolis(fnew, fold) ==
  IF fnew # NaN /\ fold # NaN /\ fnew <= fold THEN {TRUE} ELSE {TRUE, FALSE}

(***************************************************************************)
(* The state                                                               *)
(***************************************************************************)
VARIABLES
  pc,       \* where the call of minbeam stands
  beams,    \* np.array(beams), line 151
  sampled,  \* whether the boundary sampler has run in this call
  X,        \* the point cloud, line 171
  max_sep,  \* line 174
  grid,     \* best_params: the entry of MemoSeq that holds the bounds, the
            \* domain and the objective of this call; 0 outside best_params
  first,    \* basinhopping: the minimum found from the guess (axis indices)
  x,        \* basinhopping: the current point (axis indices)
  best,     \* basinhopping: the lowest accepted minimum (axis indices)
  moved,    \* basinhopping: whether a cycle has replaced the lowest minimum
  nstep,    \* basinhopping: the cycles done
  last,     \* the last cycle: was the displaced point out of bounds, did the
            \* minimiser evaluate the objective, outside the bounds, to NaN,
            \* was the refined point accepted
  result,   \* what minbeam returned: <<major, minor, pa>>
  calls,    \* the calls of minbeam completed in this process
  prev      \* what the previous call returned

vars == <<pc, beams, sampled, X, max_sep, grid, first, x, best, moved, nstep, last, result, calls, prev>>

None == <<>>

NoCycle == [out |-> FALSE, ran |-> FALSE, evalOut |-> FALSE, nan |-> FALSE, acc |-> FALSE]

Init ==
  /\ pc = "validate"
  /\ beams \in Inputs
  /\ sampled = FALSE
  /\ X = <<>>
  /\ max_sep = 0
  /\ grid = 0
  /\ first = <<0, 0>>
  /\ x = <<0, 0>>
  /\ best = <<0, 0>>
  /\ moved = FALSE
  /\ nstep = 0
  /\ last = NoCycle
  /\ result = None
  /\ calls = 0
  /\ prev = None

\* lines 152-153: raise ValueError unless beams is two-dimensional with
\* three columns
Validate ==
  /\ pc = "validate"
  /\ pc' = IF Ndim(beams) # 2 \/ beams.shape[2] # 3 THEN "error" ELSE "sample"
  /\ UNCHANGED <<beams, sampled, X, max_sep, grid, first, x, best, moved, nstep, last, result, calls, prev>>

\* lines 155-171: sample the boundary of every beam
Sample ==
  /\ pc = "sample"
  /\ X' = Cloud(beams.rows)
  /\ sampled' = TRUE
  /\ pc' = "max_sep"
  /\ UNCHANGED <<beams, max_sep, grid, first, x, best, moved, nstep, last, result, calls, prev>>

\* line 174: np.max raises ValueError on an array without elements
MaxSep ==
  /\ pc = "max_sep"
  /\ IF beams.shape[1] = 0
     THEN pc' = "error" /\ UNCHANGED max_sep
     ELSE pc' = "search" /\ max_sep' = MaxSepOf(beams.rows)
  /\ UNCHANGED <<beams, sampled, X, grid, first, x, best, moved, nstep, last, result, calls, prev>>

\* basinhopping before its loop: minimise from the guess and store the
\* minimum found as the current point and as the lowest
SearchStart ==
  /\ pc = "search"
  /\ \E k \in {Memo(beams)} : \E g \in {MemoSeq[k]} :
       \E c \in {Cycle(g, PointAt(g, Guess(max_sep)))} :
        /\ grid' = k
        /\ first' = c.x
        /\ x' = c.x
        /\ best' = c.x
        /\ moved' = FALSE
        /\ last' = [out |-> c.out, ran |-> c.ran, evalOut |-> c.evalOut, nan |-> c.nan,
                    acc |-> TRUE]
  /\ nstep' = 0
  /\ pc' = "hop"
  /\ UNCHANGED <<beams, sampled, X, max_sep, result, calls, prev>>

\* one cycle of basinhopping: displace the current point, minimise from
\* there within the bounds, run the accept tests on the minimum found, and
\* on acceptance move there and keep it if it is the lowest so far
Hop ==
  /\ pc = "hop"
  /\ nstep < NIter
  /\ \E g \in {MemoSeq[grid]} : \E d \in Displacements :
       \E c \in {Cycle(g, <<x[1] + d[1], x[2] + d[2]>>)} :
         \E u \in Metropolis(Objective(g, c.x), Objective(g, x)) :
           \E accept \in {BoundsTest(max_sep, PointVal(g, c.x)) /\ u} :
             \E lower \in Improves(Objective(g, c.x), Objective(g, best)) :
               /\ x' = IF accept THEN c.x ELSE x
               /\ best' = IF accept /\ lower THEN c.x ELSE best
               /\ moved' = (moved \/ (accept /\ lower))
               /\ last' = [out |-> c.out, ran |-> c.ran, evalOut |-> c.evalOut,
                           nan |-> c.nan, acc |-> accept]
  /\ nstep' = nstep + 1
  /\ UNCHANGED <<pc, beams, sampled, X, max_sep, grid, first, result, calls, prev>>

\* lines 132, 177-183: take the lowest minimum as (sep, pa) and decode it
Decode ==
  /\ pc = "hop"
  /\ nstep = NIter
  /\ \E v \in {PointVal(MemoSeq[grid], best)} :
       \E major \in {MaxString(X, v[1], v[2])} :
         result' = <<major, Sqrt2(major * major - v[1] * v[1]), v[2]>>
  /\ calls' = calls + 1
  /\ pc' = "done"
  /\ UNCHANGED <<beams, sampled, X, max_sep, grid, first, x, best, moved, nstep, last, prev>>

\* the caller calls minbeam again on the same beams, in the same process
CallAgain ==
  /\ pc = "done"
  /\ calls < MaxCalls
  /\ prev' = result
  /\ pc' = "validate"
  /\ sampled' = FALSE
  /\ X' = <<>>
  /\ max_sep' = 0
  /\ grid' = 0
  /\ first' = <<0, 0>>
  /\ x' = <<0, 0>>
  /\ best' = <<0, 0>>
  /\ moved' = FALSE
  /\ nstep' = 0
  /\ last' = NoCycle
  /\ result' = None
  /\ UNCHANGED <<beams, calls>>

Next == Validate \/ Sample \/ MaxSep \/ SearchStart \/ Hop \/ Decode \/ CallAgain

Spec == Init /\ [][Next]_vars

\* the call runs to its end: no step of it waits on anything
FairSpec == Spec /\ WF_vars(Next)

(***************************************************************************)
(* Properties                                                              *)
(***************************************************************************)
\* the rounding error allowed when two fixed-point values are compared
Tol == 5

\* the call is inside, or past, the search of best_params
InSearch == pc \in {"hop", "done"}

\* the bounds, the domain and the objective of the call
Grid == MemoSeq[grid]

\* the (separation, orientation) that best_params returns
Returned == PointVal(Grid, best)

\* the string length of every point of the cloud for the foci of the
\* returned separation and of the orientation in the result
ResultStrings ==
  LET f == focii_positions(Returned[1], result[3]) IN string_length(X, f[1], f[2])

\* C1: when minbeam returns on an N x 3 input with N >= 1, every sampled
\* boundary point of every beam has a string length, for the foci of the
\* returned separation and orientation, of at most the returned major axis.
C1_Containment ==
  pc = "done" =>
    /\ IsNx3(beams)
    /\ Len(X) = beams.shape[1] * NSamples
    /\ \A i \in 1..Len(X) : ResultStrings[i] <= result[1]

\* a call on several beams has returned, with a point on the returned
\* ellipse and a point strictly inside it
C1_Witness ==
  /\ pc = "done"
  /\ beams.shape[1] >= 2
  /\ \E i \in 1..Len(X) : ResultStrings[i] = result[1]
  /\ \E i \in 1..Len(X) : ResultStrings[i] < result[1]

\* C2: an input that is not an N x 3 collection with N >= 1 ends in the
\* error before the boundary sampler has run; no other input ends there.
C2_ErrorBeforeSampling ==
  /\ pc = "error" => ~sampled /\ ~IsNx3(beams)
  /\ (pc \in {"sample", "max_sep", "search", "hop", "done"}) => IsNx3(beams)

\* the focal separation sqrt(major^2 - minor^2) of a beam
FocalSep(beam) == Sqrt2(beam[1] * beam[1] - beam[2] * beam[2])

\* two orientations of the same axis: equal up to a multiple of pi
SameAxis(o, pa) == \E m \in -2..2 : Abs(o - pa - m * Pi) <= Tol

\* two values equal within the rounding error
Near(a, b) == Abs(a - b) <= Tol

\* the points of the domain at which the objective is lowest
ArgMin(g) ==
  {p \in Domain(g) : \A q \in Domain(g) : ~Less(Objective(g, q), Objective(g, p))}

\* the points of the domain that stand for the separation sep
OnGrid(g, sep) == \E i \in 1..Len(g.sep) : g.sep[i] = sep

\* C3 (as amended): for a single beam that is not a circle (major > minor > 0)
\* every minimiser of the objective over the domain has the beam's own
\* orientation up to a multiple of pi and, within a grid cell, its own focal
\* separation; when the focal separation is a grid point and the search
\* returns a minimiser, the result has the beam's major and minor axis and
\* its orientation up to a multiple of pi.
C3_SingleBeam ==
  (pc = "done" /\ beams.shape[1] = 1 /\ beams.rows[1][1] > beams.rows[1][2]) =>
     \A p \in ArgMin(Grid) :
        /\ SameAxis(PointVal(Grid, p)[2], beams.rows[1][3])
        /\ Abs(PointVal(Grid, p)[1] - FocalSep(beams.rows[1])) < SepStep
        /\ (best = p /\ OnGrid(Grid, FocalSep(beams.rows[1]))) =>
              /\ PointVal(Grid, p)[1] = FocalSep(beams.rows[1])
              /\ Near(result[1], beams.rows[1][1])
              /\ Near(result[2], beams.rows[1][2])
              /\ SameAxis(result[3], beams.rows[1][3])

\* a call on one beam has returned a minimiser: the beam's axes, and an
\* orientation that is the beam's only up to a multiple of pi
C3_Witness ==
  /\ pc = "done"
  /\ beams.shape[1] = 1
  /\ beams.rows[1][1] > beams.rows[1][2]
  /\ best \in ArgMin(Grid)
  /\ OnGrid(Grid, FocalSep(beams.rows[1]))
  /\ Near(result[1], beams.rows[1][1])
  /\ Near(result[2], beams.rows[1][2])
  /\ ~Near(result[3], beams.rows[1][3])

\* C3 as stated: for every single beam, every minimiser of the objective is
\* the beam's own focal separation and orientation (mod pi), and the result
\* decoded from it is the input beam (major, minor, pa).
C3_ResultIsInput ==
  (pc = "done" /\ beams.shape[1] = 1) =>
     \A p \in ArgMin(Grid) :
        /\ SameAxis(PointVal(Grid, p)[2], beams.rows[1][3])
        /\ best = p =>
              /\ Near(result[1], beams.rows[1][1])
              /\ Near(result[2], beams.rows[1][2])
              /\ Near(result[3], beams.rows[1][3])

\* C4: at every candidate at which the objective is evaluated, and at every
\* point of the domain, the separation does not exceed the largest string
\* length (the objective is not NaN), and the result has
\* major >= minor >= 0 with separation < major.
C4_RealMinor ==
  /\ ~last.nan
  /\ InSearch => \A q \in Domain(Grid) : Objective(Grid, q) # NaN
  /\ pc = "done" =>
       /\ result[2] # NaN
       /\ result[1] >= result[2]
       /\ result[2] >= 0
       /\ Returned[1] < result[1]

\* a call has returned an ellipse that is not a circle, found by a cycle
\* that evaluated the objective
C4_Witness ==
  /\ pc = "done"
  /\ last.ran
  /\ Returned[1] > 0
  /\ result[2] > 0
  /\ result[1] > result[2]

\* C5 (as amended): the objective is never evaluated outside the domain; a
\* displaced point outside the bounds is not rejected, the local minimiser
\* starts from its projection onto the bounds and the accept test is run on
\* the minimum found.
C5_EvaluatedInDomain ==
  /\ ~last.evalOut
  /\ last.out => last.ran

\* a displaced point outside the bounds was refined and the refined point
\* accepted
C5_Witness == pc = "hop" /\ last.out /\ last.ran /\ last.acc /\ ~last.evalOut

\* C5 as stated: a displaced point outside the bounds is rejected, and no
\* objective evaluation is made for it.
C5_RejectedBeforeEvaluation == last.out => (~last.acc /\ ~last.ran)

\* C6: two calls of minbeam on the same beams in one process return the
\* same result.
C6_SameResult == (pc = "done" /\ prev # None) => result = prev

\* the largest major axis among the first two beams
LargestMajor ==
  IF beams.shape[1] = 1 \/ beams.rows[1][1] >= beams.rows[2][1]
  THEN beams.rows[1][1] ELSE beams.rows[2][1]

\* C7: max_sep is twice the largest major axis among the first two beams.
C7_TwiceLargestMajor ==
  (pc \in {"search", "hop", "done"}) => max_sep = 2 * LargestMajor

\* what holds of the search at every step: it started from the minimum found
\* from the guess (max_sep / 2, pi / 2), it has run at most 100 cycles and,
\* once minbeam has returned, exactly 100; the point it holds as its best is
\* not higher than the current point nor than the starting minimum, and it
\* is the starting minimum as long as no cycle has replaced it
SearchInv ==
  /\ InSearch =>
       /\ first = Minimise(Grid, PointAt(Grid, <<DivR(max_sep, 2), HalfPi>>)).x
       /\ nstep <= 100
       /\ ~Less(Objective(Grid, x), Objective(Grid, best))
       /\ ~Less(Objective(Grid, first), Objective(Grid, best))
       /\ ~moved => best = first
  /\ pc = "done" => nstep = 100 /\ Len(result) = 3

\* C8: the search always terminates: a call that enters it returns, after
\* 100 cycles from the guess, the best accepted point, which is the
\* starting point's refinement when no cycle replaced it.
C8_Terminates == []SearchInv /\ ((pc = "search") ~> (pc = "done"))

\* a call has returned the starting point's refinement: no cycle replaced it
C8_Witness == pc = "done" /\ nstep = 100 /\ ~moved /\ best = first /\ x # first

\* C9 (as amended): when the sampler has run, it has taken NSamples angles
\* evenly spaced over the closed interval [0, 2 pi], both ends included
\* (steps of 2 pi / (NSamples - 1)), so that the last angle repeats the
\* first; the cloud has N * NSamples points, the k-th block of NSamples
\* points belonging to beam k.
C9_ClosedSampling ==
  (pc = "max_sep" /\ sampled /\ IsNx3(beams)) =>
     /\ Len(Theta) = NSamples
     /\ Theta[1] = 0
     /\ Theta[NSamples] = TwoPi
     /\ \A i \in 1..(NSamples - 1) :
          Abs(Theta[i + 1] - Theta[i] - DivR(TwoPi, NSamples - 1)) <= 1
     /\ Len(X) = beams.shape[1] * NSamples
     /\ \A k \in 1..beams.shape[1] :
          LET bx == BeamX(beams.rows[k])
              by == BeamY(beams.rows[k])
          IN /\ \A i \in 1..NSamples : X[(k - 1) * NSamples + i] = <<bx[i], by[i]>>
             /\ X[(k - 1) * NSamples + 1] = X[k * NSamples]

\* the sampler has just run on three beams
C9_Witness == pc = "max_sep" /\ sampled /\ beams.shape[1] = 3 /\ Len(X) = 3 * NSamples

\* C9 as stated: the sample angles of a beam are pairwise distinct modulo
\* 2 pi.
C9_HalfOpenSampling ==
  sampled => \A i, j \in 1..Len(Theta) : i # j => Theta[i] % TwoPi # Theta[j] % TwoPi

\* C10: the current point and the best point of the search, and the
\* orientation returned, have separation in [0, max_sep] and orientation in
\* [0, pi].
C10_WithinBounds ==
  /\ InSearch =>
       \A v \in {PointVal(Grid, x), PointVal(Grid, best), PointVal(Grid, first)} :
          0 <= v[1] /\ v[1] <= max_sep /\ 0 <= v[2] /\ v[2] <= Pi
  /\ pc = "done" => 0 <= result[3] /\ result[3] <= Pi

\* a displaced point outside the bounds was refined to a point on the
\* boundary of the domain, which became the current and the best point
C10_Witness ==
  /\ pc = "hop"
  /\ last.out
  /\ last.acc
  /\ moved
  /\ best = x
  /\ PointVal(Grid, best)[2] \in {0, Pi}
====
